---- MODULE Spec2Model ----
(***************************************************************************)
(* Model of the bottle controller of barwin-arduino (Bottle::turn_to,       *)
(* Bottle::turn_up/turn_down/turn_to_pause_pos and Bottle::pour) together   *)
(* with the parts of the firmware that the controller calls or is called    *)
(* by (scale driver, abort flag, wait loops, pour sequencer).               *)
(***************************************************************************)
EXTENDS Integers, Sequences, FiniteSets, TLC

\* ------------------------------------------------------------------ bounds
\* distance between pos_down and pos_up of a bottle (microseconds)
Travel == 4
\* largest weight the scale reports
MaxWeight == 2
\* largest amount requested for one bottle
MaxReq == 2
\* BottleEmpty/CupMissing recoveries followed within one pour call
MaxRecover == 2
\* how far a configured pos_down or pos_up may lie outside the servo range
MaxShift == 1

\* ------------------------------------------------------- program constants
SERVO_MIN == 1000
SERVO_MAX == 2000

\* config.h (not part of the sources at hand)
WEIGHT_EPSILON == 1
UPGRIGHT_OFFSET == 1
BOTTLE_EMPTY_POS_OFFSET == -1

\* errv_t values; 0 is success
OK == "0"
SERVO_OUT_OF_RANGE == "SERVO_OUT_OF_RANGE"
WEIGHT_NOT_STABLE == "WEIGHT_NOT_STABLE"
WHERE_THE_FUCK_IS_THE_CUP == "WHERE_THE_FUCK_IS_THE_CUP"
BOTTLE_EMPTY == "BOTTLE_EMPTY"
ABORTED == "ABORTED"
ADS1231_WOULD_BLOCK == "ADS1231_WOULD_BLOCK"
ADS1231_TIMEOUT_HIGH == "ADS1231_TIMEOUT_HIGH"
CUP_TIMEOUT_REACHED == "CUP_TIMEOUT_REACHED"

\* config.h: the longest wait for the requested weight, in units of the
\* delay between two servo steps
POURING_TIMEOUT == Travel + 1

\* bottle.h: the default of turn_to's and turn_up's enable_abortcheck
DEFAULT_ABORTCHECK == TRUE

\* value of weight_previous1/2 before the first sample
NO_WEIGHT == -9999

Weights == 0..MaxWeight
NumBottles == 2
Bottles == 0..(NumBottles - 1)

VARIABLES
    mode,            \* "READY", "TURN" (TURN command running), "POUR"
    abort,           \* the abort flag
    scale,           \* weight currently on the scale
    servo,           \* servo[b]: commanded position of bottle b
    stack,           \* active turn_to calls, innermost last
    tt_ret,          \* return value of the last outermost turn_to call
    orig_weight,     \* the int that stable_weight points to
    call,            \* arguments of the last outermost turn_to call
    tt_hist,         \* valid samples of that call if it stabilizes
    tt_declared,     \* that call wrote *stable_weight
    step_ops,        \* what the last loop iteration of that call did
    moved,           \* bottles whose servo was written during the command
    cur,             \* sequencer: the bottle being handled
    pc,              \* sequencer and Bottle::pour: the place in the code
    requested_amount,
    measured_amount,
    pour_ret,        \* return value of the last pour call
    log,             \* messages and calls of the running pour call
    skipped,         \* bottles asked for less than the skip threshold
    announced,       \* bottles named in a POURING message of this command
    abort_at,        \* pc at which ABORT arrived, "" if it has not
    bottles,         \* the table of Bottle objects: pos_down, pos_up
    since_tilt,      \* time since the tilt down of this iteration began
    since_wait       \* time since delay_until was called

ttvars == <<stack, tt_ret, call, tt_hist, tt_declared, step_ops>>
timers == <<since_tilt, since_wait>>
pourvars == <<cur, pc, requested_amount, measured_amount, pour_ret, log,
              skipped, announced>>
vars == <<mode, abort, scale, servo, orig_weight, moved, abort_at, bottles, timers, ttvars,
          pourvars>>

\* ------------------------------------------------------ bottle table
\* Bottle(number, pin, pos_down, pos_up): bottle 0 sits at the lower end of
\* the servo range, the others at the upper end; lo and hi shift the two
\* ends beyond SERVO_MIN and SERVO_MAX
Table(lo, hi) ==
    [b \in Bottles |->
        IF b = 0
        THEN [pos_down |-> SERVO_MIN - lo, pos_up |-> SERVO_MIN - lo + Travel]
        ELSE [pos_down |-> SERVO_MAX + hi - Travel, pos_up |-> SERVO_MAX + hi]]

\* the tables a build can be configured with
Tables == {Table(lo, hi) : lo \in 0..MaxShift, hi \in 0..MaxShift}

pos_down(b) == bottles[b].pos_down
pos_up(b) == bottles[b].pos_up

get_pause_pos(b) == (pos_down(b) + pos_up(b)) \div 2
below_pause(b) == (pos_down(b) + get_pause_pos(b)) \div 2
empty_pos_up(b) == pos_up(b)

empty_pos(b) == pos_up(b) + BOTTLE_EMPTY_POS_OFFSET

\* positions the servo of bottle b is asked to go to by the TURN command
TurnTargets(b) == (pos_down(b) - 1)..(pos_up(b) + 1)

\* ------------------------------------------------------------ turn_to
OutOfRange_NoUpper(pos) == pos < SERVO_MIN

OutOfRange(pos) == pos < SERVO_MIN \/ pos > SERVO_MAX

Frame_always_up(b, pos, check_weight, stable_weight, enable_abortcheck, current_pos) ==
    [b |-> b, pos |-> pos, check_weight |-> check_weight,
     stable_weight |-> stable_weight,
     enable_abortcheck |-> enable_abortcheck,
     step |-> 1, i |-> current_pos + 1,
     weight_previous1 |-> NO_WEIGHT, weight_previous2 |-> NO_WEIGHT,
     aborting |-> FALSE]

\* one frame of turn_to after lines 52-63
Frame(b, pos, check_weight, stable_weight, enable_abortcheck, current_pos) ==
    LET step == IF current_pos < pos THEN 1 ELSE -1
    IN  [b |-> b, pos |-> pos, check_weight |-> check_weight,
         stable_weight |-> stable_weight,
         enable_abortcheck |-> enable_abortcheck,
         step |-> step, i |-> current_pos + step,
         weight_previous1 |-> NO_WEIGHT, weight_previous2 |-> NO_WEIGHT,
         aborting |-> FALSE]

\* lines 55-62: the value turn_to returns before its loop, "" if it enters it
turn_to_entry(pos, current_pos) ==
    IF OutOfRange(pos) THEN SERVO_OUT_OF_RANGE
    ELSE IF pos = current_pos THEN OK
    ELSE ""

\* what ads1231_get_noblock can deliver
SampleResults ==
    { [ret |-> OK, weight |-> scale],
      [ret |-> ADS1231_WOULD_BLOCK, weight |-> 0],
      [ret |-> ADS1231_TIMEOUT_HIGH, weight |-> 0] }

check_aborted == IF abort THEN ABORTED ELSE OK

weigh_block_fails(f, s) ==
    IF s.ret = OK
    THEN IF f.check_weight /\ s.weight < WEIGHT_EPSILON
         THEN <<"return", WHERE_THE_FUCK_IS_THE_CUP>>
         ELSE IF f.stable_weight
              THEN IF f.weight_previous2 = f.weight_previous1
                       /\ f.weight_previous1 = s.weight
                   THEN <<"stable", s.weight>>
                   ELSE <<"go", s.weight, f.weight_previous1>>
              ELSE <<"go", f.weight_previous1, f.weight_previous2>>
    ELSE <<"return", s.ret>>

weigh_no_cup_check(f, s) ==
    IF s.ret = OK
    THEN IF f.stable_weight
         THEN IF f.weight_previous2 = f.weight_previous1
                  /\ f.weight_previous1 = s.weight
              THEN <<"stable", s.weight>>
              ELSE <<"go", s.weight, f.weight_previous1>>
         ELSE <<"go", f.weight_previous1, f.weight_previous2>>
    ELSE IF s.ret # ADS1231_WOULD_BLOCK
         THEN <<"return", s.ret>>
         ELSE <<"go", f.weight_previous1, f.weight_previous2>>

weigh_two_equal(f, s) ==
    IF s.ret = OK
    THEN IF f.check_weight /\ s.weight < WEIGHT_EPSILON
         THEN <<"return", WHERE_THE_FUCK_IS_THE_CUP>>
         ELSE IF f.stable_weight
              THEN IF f.weight_previous1 = s.weight
                   THEN <<"stable", s.weight>>
                   ELSE <<"go", s.weight, f.weight_previous1>>
              ELSE <<"go", f.weight_previous1, f.weight_previous2>>
    ELSE IF s.ret # ADS1231_WOULD_BLOCK
         THEN <<"return", s.ret>>
         ELSE <<"go", f.weight_previous1, f.weight_previous2>>

\* lines 99-124 on a sample s: <<"return", code>>, <<"stable", weight>> or
\* <<"go", weight_previous1, weight_previous2>>
weigh(f, s) ==
    IF s.ret = OK
    THEN IF f.check_weight /\ s.weight < WEIGHT_EPSILON
         THEN <<"return", WHERE_THE_FUCK_IS_THE_CUP>>
         ELSE IF f.stable_weight
              THEN IF f.weight_previous2 = f.weight_previous1
                       /\ f.weight_previous1 = s.weight
                   THEN <<"stable", s.weight>>
                   ELSE <<"go", s.weight, f.weight_previous1>>
              ELSE <<"go", f.weight_previous1, f.weight_previous2>>
    ELSE IF s.ret # ADS1231_WOULD_BLOCK
         THEN <<"return", s.ret>>
         ELSE <<"go", f.weight_previous1, f.weight_previous2>>

Top == stack[Len(stack)]
Pop == SubSeq(stack, 1, Len(stack) - 1)
SetTop(f) == [stack EXCEPT ![Len(stack)] = f]
Push3(h, w) == IF Len(h) < 3 THEN Append(h, w) ELSE Append(Tail(h), w)

\* the frame returns code: the outermost call hands it to its caller
Return(code) ==
    /\ stack' = Pop
    /\ tt_ret' = IF Len(stack) = 1 THEN code ELSE tt_ret

\* no call of turn_to has been made since the last command ended
NoCall == [b |-> 0, pos |-> pos_up(0), check_weight |-> FALSE,
           stable_weight |-> FALSE, enable_abortcheck |-> FALSE,
           pre |-> pos_up(0)]

\* an outermost call of turn_to on bottle b
Call(b, pos, check_weight, stable_weight, enable_abortcheck) ==
    LET e == turn_to_entry(pos, servo[b])
    IN  /\ stack = <<>>
        /\ call' = [b |-> b, pos |-> pos, check_weight |-> check_weight,
                    stable_weight |-> stable_weight,
                    enable_abortcheck |-> enable_abortcheck,
                    pre |-> servo[b]]
        /\ tt_hist' = <<>>
        /\ tt_declared' = FALSE
        /\ step_ops' = <<>>
        /\ IF e = ""
           THEN /\ stack' = <<Frame(b, pos, check_weight, stable_weight,
                                    enable_abortcheck, servo[b])>>
                /\ tt_ret' = ""
           ELSE /\ stack' = <<>>
                /\ tt_ret' = e

\* turn_up(delay_ms, enable_abortcheck), turn_down(delay_ms, check_weight)
\* and turn_to_pause_pos(delay_ms): <<pos, check_weight, stable_weight,
\* enable_abortcheck>> of the turn_to call they make
turn_up_checked(b, enable_abortcheck) == <<pos_up(b), FALSE, FALSE, TRUE>>

turn_up_to_pause(b, enable_abortcheck) ==
    <<get_pause_pos(b), FALSE, FALSE, enable_abortcheck>>

turn_up(b, enable_abortcheck) == <<pos_up(b), FALSE, FALSE, enable_abortcheck>>

turn_down(b, check_weight) ==
    <<pos_down(b), check_weight, FALSE, DEFAULT_ABORTCHECK>>

turn_to_pos_up(b) == <<pos_up(b), FALSE, FALSE, DEFAULT_ABORTCHECK>>

turn_to_pause_pos(b) == <<get_pause_pos(b), FALSE, FALSE, DEFAULT_ABORTCHECK>>

CallArgs(b, a) == Call(b, a[1], a[2], a[3], a[4])

Weighs(f) == f.check_weight \/ f.stable_weight

\* lines 87-129, one loop iteration with the abort flag's value ab and the
\* sample s: what it does (ops, in order) and how it ends
iteration_weigh_first(f, ab, s) ==
    LET r == IF Weighs(f) THEN weigh(f, s)
             ELSE <<"go", f.weight_previous1, f.weight_previous2>>
        w == IF Weighs(f) THEN <<"get_noblock", s.ret>> ELSE <<>>
        c == IF f.enable_abortcheck THEN <<"check_aborted">> ELSE <<>>
    IN  IF r[1] # "go"
        THEN [kind |-> r[1], val |-> r[2], p1 |-> 0, p2 |-> 0, ops |-> w]
        ELSE IF f.enable_abortcheck /\ ab # OK
        THEN [kind |-> "abort", val |-> ab, p1 |-> 0, p2 |-> 0,
              ops |-> w \o c \o <<"turn_up">>]
        ELSE [kind |-> "go", val |-> 0, p1 |-> r[2], p2 |-> r[3],
              ops |-> w \o c \o <<"write">>]

iteration(f, ab, s) ==
    LET c == IF f.enable_abortcheck THEN <<"check_aborted">> ELSE <<>>
    IN  IF f.enable_abortcheck /\ ab # OK
        THEN [kind |-> "abort", val |-> ab, p1 |-> 0, p2 |-> 0,
              ops |-> c \o <<"turn_up">>]
        ELSE LET r == IF Weighs(f) THEN weigh(f, s)
                      ELSE <<"go", f.weight_previous1, f.weight_previous2>>
                 w == IF Weighs(f) THEN <<"get_noblock", s.ret>> ELSE <<>>
             IN  IF r[1] = "go"
                 THEN [kind |-> "go", val |-> 0, p1 |-> r[2], p2 |-> r[3],
                       ops |-> c \o w \o <<"write">>]
                 ELSE [kind |-> r[1], val |-> r[2], p1 |-> 0, p2 |-> 0,
                       ops |-> c \o w]

\* the samples an iteration of frame f can see
SamplesOf(f) ==
    IF Weighs(f) THEN SampleResults
    ELSE {[ret |-> ADS1231_WOULD_BLOCK, weight |-> 0]}

\* the valid samples of a call with stabilization, the latest three
Sampled(f, it, s) ==
    IF f.stable_weight /\ s.ret = OK
          /\ "get_noblock" \in {it.ops[k] : k \in DOMAIN it.ops}
    THEN Push3(tt_hist, s.weight) ELSE tt_hist

InLoop == stack # <<>> /\ ~Top.aborting /\ Top.i * Top.step <= Top.pos * Top.step

Ops(o) == IF Len(stack) = 1 THEN o ELSE step_ops

\* lines 87-96: the iteration sees the abort flag and calls
\* turn_up(FAST_TURN_UP_DELAY, false)
TurnStepAbort ==
    /\ InLoop
    /\ \E s \in SamplesOf(Top) :
       LET f == Top
           it == iteration(f, check_aborted, s)
           a == turn_up(f.b, FALSE)
           e == turn_to_entry(a[1], servo[f.b])
       IN  /\ it.kind = "abort"
           /\ step_ops' = Ops(it.ops)
           /\ stack' = IF e = ""
                       THEN Append(SetTop([f EXCEPT !.aborting = TRUE]),
                                   Frame(f.b, a[1], a[2], a[3], a[4],
                                         servo[f.b]))
                       ELSE SetTop([f EXCEPT !.aborting = TRUE])
    /\ UNCHANGED <<mode, abort, scale, servo, tt_ret, orig_weight, call,
                   tt_hist, tt_declared, moved, abort_at, bottles, timers, pourvars>>

\* line 94: return ret, after turn_up has come back
TurnAbortReturn ==
    /\ stack # <<>> /\ Top.aborting
    /\ Return(ABORTED)
    /\ UNCHANGED <<mode, abort, scale, servo, orig_weight, call, tt_hist,
                   tt_declared, step_ops, moved, abort_at, bottles, timers, pourvars>>

\* lines 98-125: the iteration ends the call on a sample
TurnStepReturn ==
    /\ InLoop
    /\ \E s \in SamplesOf(Top) :
       LET f == Top
           it == iteration(f, check_aborted, s)
       IN  /\ it.kind \in {"return", "stable"}
           /\ step_ops' = Ops(it.ops)
           /\ tt_hist' = Sampled(f, it, s)
           /\ IF it.kind = "stable"
              THEN /\ Return(OK)
                   /\ orig_weight' = it.val
                   /\ tt_declared' = TRUE
              ELSE /\ Return(it.val)
                   /\ UNCHANGED <<orig_weight, tt_declared>>
    /\ UNCHANGED <<mode, abort, scale, servo, call, moved, abort_at, bottles, timers, pourvars>>

\* lines 127-129: the iteration turns the servo one step
TurnStep ==
    /\ InLoop
    /\ \E s \in SamplesOf(Top) :
       LET f == Top
           it == iteration(f, check_aborted, s)
       IN  /\ it.kind = "go"
           /\ step_ops' = Ops(it.ops)
           /\ tt_hist' = Sampled(f, it, s)
           /\ servo' = [servo EXCEPT ![f.b] = f.i]
           /\ moved' = moved \cup {f.b}
           /\ stack' = SetTop([f EXCEPT !.i = f.i + f.step,
                                        !.weight_previous1 = it.p1,
                                        !.weight_previous2 = it.p2])
    /\ since_tilt' = IF mode = "POUR" /\ pc = "down_ret"
                     THEN since_tilt + 1 ELSE since_tilt
    /\ UNCHANGED <<mode, abort, scale, tt_ret, orig_weight, call, tt_declared,
                   abort_at, bottles, since_wait, pourvars>>

\* lines 132-137: the loop is over
TurnExit ==
    LET f == Top
    IN  /\ stack # <<>> /\ ~f.aborting
        /\ ~(f.i * f.step <= f.pos * f.step)
        /\ Return(IF f.stable_weight THEN WEIGHT_NOT_STABLE ELSE OK)
        /\ UNCHANGED <<mode, abort, scale, servo, orig_weight, call, tt_hist,
                       tt_declared, step_ops, moved, abort_at, bottles, timers, pourvars>>

\* ------------------------------------------------------ environment
\* the weight on the scale changes
ScaleChange ==
    /\ \E w \in Weights : w # scale /\ scale' = w
    /\ UNCHANGED <<mode, abort, servo, orig_weight, moved, abort_at, bottles, timers, ttvars,
                   pourvars>>

\* ABORT arrives while a command is running
Abort ==
    /\ mode # "READY" /\ ~abort
    /\ abort' = TRUE
    /\ abort_at' = pc
    /\ UNCHANGED <<mode, scale, servo, orig_weight, moved, bottles, timers,
                   ttvars, pourvars>>

\* the state in which no command runs
Idle ==
    /\ mode' = "READY"
    /\ abort' = FALSE
    /\ abort_at' = ""
    /\ stack' = <<>>
    /\ tt_ret' = ""
    /\ orig_weight' = 0
    /\ call' = NoCall
    /\ tt_hist' = <<>>
    /\ tt_declared' = FALSE
    /\ step_ops' = <<>>
    /\ moved' = {}
    /\ cur' = 0
    /\ pc' = ""
    /\ requested_amount' = 0
    /\ measured_amount' = 0
    /\ pour_ret' = ""
    /\ log' = <<>>
    /\ skipped' = {}
    /\ announced' = {}
    /\ since_tilt' = 0
    /\ since_wait' = 0

\* bottles that do not stand upright; commands are sent while at most one
\* bottle is left displaced
Displaced == {b \in Bottles : servo[b] # pos_up(b)}

\* ------------------------------------------------------ TURN command
\* a direct call of turn_to with any arguments, from the idle state
TurnCmd ==
    /\ mode = "READY"
    /\ \E b \in Bottles : \E pos \in TurnTargets(b) :
       \E cw \in BOOLEAN, sw \in BOOLEAN, ac \in BOOLEAN :
          /\ Displaced \subseteq {b}
          /\ Call(b, pos, cw, sw, ac)
    /\ mode' = "TURN"
    /\ abort' \in BOOLEAN
    /\ UNCHANGED <<scale, servo, orig_weight, moved, abort_at, bottles, timers, pourvars>>

TurnCmdDone ==
    /\ mode = "TURN" /\ stack = <<>>
    /\ Idle
    /\ UNCHANGED <<scale, servo, bottles>>

\* ------------------------------------------------------ Bottle::pour
\* the caller has taken the result of the last turn_to call
TakeResult ==
    /\ tt_ret' = ""
    /\ call' = NoCall
    /\ tt_hist' = <<>>
    /\ tt_declared' = FALSE
    /\ step_ops' = <<>>
    /\ UNCHANGED stack

Ev(code) == <<"ret", code>>
POURING(number, weight) == <<"POURING", number, weight>>
ERROR_MSG(text) == <<"ERROR">> \o text
c_strerror(code) ==
    IF code = BOTTLE_EMPTY THEN "BOTTLE_EMPTY"
    ELSE IF code = WHERE_THE_FUCK_IS_THE_CUP THEN "CUP_GONE"
    ELSE code

\* BottleEmpty/CupMissing recoveries the running pour call has completed
Recoveries == Cardinality({k \in DOMAIN log : log[k] \in {<<"RESUME">>, <<"CUP">>}})

\* pour returns code to the sequencer
PourReturn(code) ==
    /\ pc' = "done"
    /\ pour_ret' = code

\* what ads1231_get_stable_grams and ads1231_get_grams can deliver
GramsResults ==
    { [ret |-> OK, weight |-> scale],
      [ret |-> ADS1231_TIMEOUT_HIGH, weight |-> 0] }

\* lines 184-185: the baseline turn towards below_pause
P_Base ==
    /\ mode = "POUR" /\ pc = "base" /\ stack = <<>>
    /\ Call(cur, below_pause(cur), TRUE, TRUE, DEFAULT_ABORTCHECK)
    /\ pc' = "base_ret"
    /\ UNCHANGED <<mode, abort, scale, servo, orig_weight, moved, abort_at, bottles, timers,
                   cur, requested_amount, measured_amount, pour_ret, log,
                   skipped, announced>>

\* lines 191-204 on turn_to's result r1, the baseline ow and the outcome g of
\* ads1231_get_stable_grams: <<ret, orig_weight, what follows>>
baseline_no_epsilon(r1, ow, g) ==
    LET ret == IF r1 = WEIGHT_NOT_STABLE THEN g.ret ELSE r1
        w == IF r1 = WEIGHT_NOT_STABLE /\ g.ret = OK THEN g.weight ELSE ow
    IN  IF ret # OK /\ ret # WHERE_THE_FUCK_IS_THE_CUP
        THEN <<ret, w, "return">>
        ELSE IF ret = WHERE_THE_FUCK_IS_THE_CUP
        THEN <<ret, w, "wait_for_cup">>
        ELSE <<ret, w, "break">>

baseline(r1, ow, g) ==
    LET ret == IF r1 = WEIGHT_NOT_STABLE THEN g.ret ELSE r1
        w == IF r1 = WEIGHT_NOT_STABLE /\ g.ret = OK THEN g.weight ELSE ow
    IN  IF ret # OK /\ ret # WHERE_THE_FUCK_IS_THE_CUP
        THEN <<ret, w, "return">>
        ELSE IF ret = WHERE_THE_FUCK_IS_THE_CUP \/ w < WEIGHT_EPSILON
        THEN <<ret, w, "wait_for_cup">>
        ELSE <<ret, w, "break">>

P_BaseRet ==
    /\ mode = "POUR" /\ pc = "base_ret" /\ stack = <<>>
    /\ \E g \in GramsResults :
       LET r == baseline(tt_ret, orig_weight, g)
           l1 == IF tt_ret = WEIGHT_NOT_STABLE
                 THEN Append(log, Ev(tt_ret)) ELSE log
       IN  /\ orig_weight' = r[2]
           /\ CASE r[3] = "return" ->
                     /\ PourReturn(r[1])
                     /\ log' = Append(l1, Ev(r[1]))
                [] r[3] = "wait_for_cup" ->
                     /\ pc' = "base_cup"
                     /\ log' = l1
                     /\ UNCHANGED pour_ret
                [] r[3] = "break" ->
                     /\ pc' = "loop"
                     /\ log' = l1
                     /\ UNCHANGED pour_ret
    /\ TakeResult
    /\ UNCHANGED <<mode, abort, scale, servo, moved, abort_at, bottles, timers, cur,
                   requested_amount, measured_amount, skipped, announced>>

\* a wait loop sees the abort flag: it turns the bottle up before it gives
\* up with ABORTED
P_WaitAbort ==
    /\ mode = "POUR" /\ pc \in {"base_cup", "pour_cup", "resume", "delay"}
    /\ stack = <<>>
    /\ check_aborted # OK
    /\ CallArgs(cur, turn_up(cur, FALSE))
    /\ pc' = "park"
    /\ since_tilt' = 0
    /\ since_wait' = 0
    /\ UNCHANGED <<mode, abort, scale, servo, orig_weight, moved, abort_at, bottles,
                   cur, requested_amount, measured_amount, pour_ret, log,
                   skipped, announced>>

P_Park ==
    /\ mode = "POUR" /\ pc = "park" /\ stack = <<>>
    /\ PourReturn(ABORTED)
    /\ log' = Append(log, Ev(ABORTED))
    /\ TakeResult
    /\ UNCHANGED <<mode, abort, scale, servo, orig_weight, moved, abort_at, bottles, timers,
                   cur, requested_amount, measured_amount, skipped,
                   announced>>

\* lines 199-200 and 248-251: where pour goes on when wait_for_cup returns 0
after_wait_restart(p) == "base"

after_wait_for_cup(p) == IF p = "base_cup" THEN "base" ELSE "loop"

\* wait_for_cup returns 0: a cup stands on the scale
P_WaitCupDone ==
    /\ mode = "POUR" /\ pc \in {"base_cup", "pour_cup"} /\ stack = <<>>
    /\ check_aborted = OK
    /\ scale >= WEIGHT_EPSILON
    /\ pc' = after_wait_for_cup(pc)
    /\ IF pc = "base_cup"
       THEN UNCHANGED log
       ELSE /\ Recoveries < MaxRecover
            /\ log' = Append(log, <<"CUP">>)
    /\ UNCHANGED <<mode, abort, scale, servo, orig_weight, moved, abort_at, bottles, timers,
                   ttvars, cur, requested_amount, measured_amount, pour_ret,
                   skipped, announced>>

\* wait_for_cup gives up: no cup came in time
P_WaitCupTimeout ==
    /\ mode = "POUR" /\ pc \in {"base_cup", "pour_cup"} /\ stack = <<>>
    /\ check_aborted = OK
    /\ scale < WEIGHT_EPSILON
    /\ PourReturn(CUP_TIMEOUT_REACHED)
    /\ log' = Append(log, Ev(CUP_TIMEOUT_REACHED))
    /\ UNCHANGED <<mode, abort, scale, servo, orig_weight, moved, abort_at, bottles, timers,
                   ttvars, cur, requested_amount, measured_amount, skipped,
                   announced>>

\* line 223: the weight delay_until waits for
target_weight_absolute(ow, requested) == requested - UPGRIGHT_OFFSET

target_weight(ow, requested) == ow + requested - UPGRIGHT_OFFSET

\* lines 209-215: what the top of the pouring loop adds to the log l
loop_top_once(l, number, weight) ==
    IF \E k \in DOMAIN l : l[k][1] = "POURING"
    THEN Append(l, <<"turn_down">>)
    ELSE l \o <<POURING(number, weight), <<"turn_down">>>>

loop_top(l, number, weight) ==
    l \o <<POURING(number, weight), <<"turn_down">>>>

\* lines 209-215: the POURING message and the tilt down
P_Loop ==
    /\ mode = "POUR" /\ pc = "loop" /\ stack = <<>>
    /\ log' = loop_top(log, cur, orig_weight)
    /\ announced' = announced \cup {cur}
    /\ CallArgs(cur, turn_down(cur, TRUE))
    /\ pc' = "down_ret"
    /\ since_tilt' = 0
    /\ since_wait' = 0
    /\ UNCHANGED <<mode, abort, scale, servo, orig_weight, moved, abort_at, bottles,
                   cur, requested_amount, measured_amount, pour_ret, skipped>>

\* lines 228-256: what the pouring loop does on the result code
dispatch_all_empty(code) ==
    IF code = OK THEN "break"
    ELSE IF code = WHERE_THE_FUCK_IS_THE_CUP THEN "cup"
    ELSE "empty"

dispatch(code) ==
    IF code = OK THEN "break"
    ELSE IF code = BOTTLE_EMPTY THEN "empty"
    ELSE IF code = WHERE_THE_FUCK_IS_THE_CUP THEN "cup"
    ELSE "return"

\* lines 228-256 and 260 on the result code of the tilt down or of the wait
\* for the weight
AfterPour(code) ==
    CASE dispatch(code) = "break" ->
           /\ log' = Append(log, <<"turn_to", get_pause_pos(cur)>>)
           /\ CallArgs(cur, turn_to_pause_pos(cur))
           /\ pc' = "settle_ret"
           /\ UNCHANGED pour_ret
      [] dispatch(code) = "empty" ->
           /\ log' = log \o <<Ev(code),
                              ERROR_MSG(<<c_strerror(BOTTLE_EMPTY), cur>>),
                              <<"turn_to", empty_pos(cur)>>>>
           /\ Call(cur, empty_pos(cur), FALSE, FALSE, DEFAULT_ABORTCHECK)
           /\ pc' = "empty_ret"
           /\ UNCHANGED pour_ret
      [] dispatch(code) = "cup" ->
           /\ log' = log \o <<Ev(code),
                              ERROR_MSG(<<c_strerror(WHERE_THE_FUCK_IS_THE_CUP)>>),
                              <<"turn_to", get_pause_pos(cur)>>>>
           /\ CallArgs(cur, turn_to_pause_pos(cur))
           /\ pc' = "pause_ret"
           /\ UNCHANGED pour_ret
      [] dispatch(code) = "return" ->
           /\ log' = Append(log, Ev(code))
           /\ PourReturn(code)
           /\ TakeResult

\* lines 215-219: turn_down has returned
P_DownRet ==
    /\ mode = "POUR" /\ pc = "down_ret" /\ stack = <<>>
    /\ IF tt_ret = OK
       THEN /\ pc' = "delay"
            /\ log' = Append(log, <<"delay_until",
                                    target_weight(orig_weight, requested_amount)>>)
            /\ TakeResult
            /\ UNCHANGED <<pour_ret, timers>>
       ELSE /\ AfterPour(tt_ret)
            /\ since_tilt' = 0
            /\ since_wait' = 0
    /\ UNCHANGED <<mode, abort, scale, servo, orig_weight, moved, abort_at, bottles,
                   cur, requested_amount, measured_amount, skipped, announced>>

\* what delay_until(POURING_TIMEOUT, target, true) returns when it ends
\* without having seen the abort flag
DelayResults(target) ==
    {ADS1231_TIMEOUT_HIGH} \cup
    (IF scale < WEIGHT_EPSILON THEN {WHERE_THE_FUCK_IS_THE_CUP}
     ELSE IF scale >= target THEN {OK}
     ELSE {BOTTLE_EMPTY})

\* lines 222-223: the wait for the requested weight ends
P_Delay ==
    /\ mode = "POUR" /\ pc = "delay" /\ stack = <<>>
    /\ check_aborted = OK
    /\ \E code \in DelayResults(target_weight(orig_weight, requested_amount)) :
          AfterPour(code)
    /\ since_tilt' = 0
    /\ since_wait' = 0
    /\ UNCHANGED <<mode, abort, scale, servo, orig_weight, moved, abort_at, bottles,
                   cur, requested_amount, measured_amount, skipped, announced>>

\* delay_until looks at the scale and the clock and goes on waiting
P_DelayPoll ==
    /\ mode = "POUR" /\ pc = "delay" /\ stack = <<>>
    /\ check_aborted = OK
    /\ since_wait < POURING_TIMEOUT
    /\ since_wait' = since_wait + 1
    /\ since_tilt' = since_tilt + 1
    /\ UNCHANGED <<mode, abort, scale, servo, orig_weight, moved, abort_at,
                   bottles, ttvars, pourvars>>

\* lines 239-240 and 247-248: the recovery turn has returned
P_RecoverRet ==
    /\ mode = "POUR" /\ pc \in {"empty_ret", "pause_ret"} /\ stack = <<>>
    /\ IF tt_ret # OK
       THEN /\ PourReturn(tt_ret)
            /\ log' = Append(log, Ev(tt_ret))
       ELSE /\ pc' = IF pc = "empty_ret" THEN "resume" ELSE "pour_cup"
            /\ UNCHANGED <<log, pour_ret>>
    /\ TakeResult
    /\ UNCHANGED <<mode, abort, scale, servo, orig_weight, moved, abort_at, bottles, timers,
                   cur, requested_amount, measured_amount, skipped,
                   announced>>

\* wait_for_resume returns 0: RESUME has arrived
P_Resume ==
    /\ mode = "POUR" /\ pc = "resume" /\ stack = <<>>
    /\ check_aborted = OK
    /\ Recoveries < MaxRecover
    /\ pc' = "loop"
    /\ log' = Append(log, <<"RESUME">>)
    /\ UNCHANGED <<mode, abort, scale, servo, orig_weight, moved, abort_at, bottles, timers,
                   ttvars, cur, requested_amount, measured_amount, pour_ret,
                   skipped, announced>>

\* lines 260-277: the turn to the pause position has returned
P_SettleRet ==
    /\ mode = "POUR" /\ pc = "settle_ret" /\ stack = <<>>
    /\ IF tt_ret # OK
       THEN /\ PourReturn(tt_ret)
            /\ log' = Append(log, Ev(tt_ret))
            /\ UNCHANGED measured_amount
       ELSE \E g \in GramsResults :
            IF g.ret # OK
            THEN /\ PourReturn(g.ret)
                 /\ log' = log \o <<<<"get_grams">>, Ev(g.ret)>>
                 /\ UNCHANGED measured_amount
            ELSE /\ PourReturn(OK)
                 /\ log' = Append(log, <<"get_grams", g.weight>>)
                 /\ measured_amount' = g.weight - orig_weight
    /\ TakeResult
    /\ UNCHANGED <<mode, abort, scale, servo, orig_weight, moved, abort_at, bottles, timers,
                   cur, requested_amount, skipped, announced>>

\* ------------------------------------------------------ POUR command
PourCmd ==
    /\ mode = "READY"
    /\ Cardinality(Displaced) <= 1
    /\ mode' = "POUR"
    /\ pc' = "seq"
    /\ UNCHANGED <<abort, scale, servo, orig_weight, moved, abort_at, bottles, timers, ttvars,
                   cur, requested_amount, measured_amount, pour_ret, log,
                   skipped, announced>>

\* the skip rule of the POUR command ("will skip bottle if x < UPRIGHT_OFFSET")
skip_never(x) == FALSE

skip(x) == x < UPGRIGHT_OFFSET

\* bottles that were asked for less than the skip threshold
Below(x) == IF x < UPGRIGHT_OFFSET THEN {cur} ELSE {}

\* the sequencer skips bottle cur
SeqSkip ==
    /\ mode = "POUR" /\ pc = "seq" /\ cur < NumBottles
    /\ \E x \in 0..MaxReq :
          /\ skip(x)
          /\ requested_amount' = x
          /\ skipped' = skipped \cup Below(x)
    /\ cur' = cur + 1
    /\ UNCHANGED <<mode, abort, scale, servo, orig_weight, moved, abort_at, bottles, timers,
                   ttvars, pc, measured_amount, pour_ret, log, announced>>

\* the sequencer calls pour on bottle cur (lines 176-179)
SeqPour ==
    /\ mode = "POUR" /\ pc = "seq" /\ cur < NumBottles
    /\ \E x \in 0..MaxReq :
          /\ ~skip(x)
          /\ requested_amount' = x
          /\ skipped' = skipped \cup Below(x)
    /\ pc' = "base"
    /\ orig_weight' = 0
    /\ log' = <<>>
    /\ pour_ret' = ""
    /\ measured_amount' = 0
    /\ UNCHANGED <<mode, abort, scale, servo, moved, abort_at, bottles, timers, ttvars, cur,
                   announced>>

\* pour has returned 0: on to the next bottle
SeqNext ==
    /\ mode = "POUR" /\ pc = "done" /\ pour_ret = OK
    /\ cur' = cur + 1
    /\ pc' = "seq"
    /\ log' = <<>>
    /\ UNCHANGED <<mode, abort, scale, servo, orig_weight, moved, abort_at, bottles, timers,
                   ttvars, requested_amount, measured_amount, pour_ret,
                   skipped, announced>>

\* the command is over: all bottles handled, or pour has returned an error
SeqEnd ==
    /\ mode = "POUR"
    /\ \/ pc = "seq" /\ cur = NumBottles
       \/ pc = "done" /\ pour_ret # OK
    /\ Idle
    /\ UNCHANGED <<scale, servo, bottles>>

Init ==
    /\ mode = "READY"
    /\ bottles = Table(0, 0)
    /\ since_tilt = 0
    /\ since_wait = 0
    /\ abort = FALSE
    /\ abort_at = ""
    /\ scale \in Weights
    /\ servo = [b \in Bottles |-> pos_up(b)]
    /\ stack = <<>>
    /\ tt_ret = ""
    /\ orig_weight = 0
    /\ call = NoCall
    /\ tt_hist = <<>>
    /\ tt_declared = FALSE
    /\ step_ops = <<>>
    /\ moved = {}
    /\ cur = 0
    /\ pc = ""
    /\ requested_amount = 0
    /\ measured_amount = 0
    /\ pour_ret = ""
    /\ log = <<>>
    /\ skipped = {}
    /\ announced = {}

\* ------------------------------------------------------ Bottle::init
\* the state after construction of the bottles, before setup() has run
BootInit ==
    /\ mode = "BOOT"
    /\ bottles \in Tables
    /\ since_tilt = 0
    /\ since_wait = 0
    /\ abort = FALSE
    /\ abort_at = ""
    /\ scale \in Weights
    /\ servo = <<>>
    /\ stack = <<>>
    /\ tt_ret = ""
    /\ orig_weight = 0
    /\ call = [b |-> 0, pos |-> SERVO_MIN, check_weight |-> FALSE,
               stable_weight |-> FALSE, enable_abortcheck |-> FALSE,
               pre |-> SERVO_MIN]
    /\ tt_hist = <<>>
    /\ tt_declared = FALSE
    /\ step_ops = <<>>
    /\ moved = {}
    /\ cur = 0
    /\ pc = ""
    /\ requested_amount = 0
    /\ measured_amount = 0
    /\ pour_ret = ""
    /\ log = <<>>
    /\ skipped = {}
    /\ announced = {}

\* lines 20-24, one iteration of the loop of Bottle::init with i = cur: the
\* servo is attached and sent to pos_up; after the last one the firmware is
\* ready for commands
BottleInit ==
    /\ mode = "BOOT" /\ cur < NumBottles
    /\ servo' = [b \in 0..cur |-> IF b = cur THEN pos_up(cur) ELSE servo[b]]
    /\ cur' = IF cur + 1 < NumBottles THEN cur + 1 ELSE 0
    /\ mode' = IF cur + 1 < NumBottles THEN "BOOT" ELSE "READY"
    /\ UNCHANGED <<abort, scale, orig_weight, moved, abort_at, bottles, timers,
                   ttvars, pc, requested_amount, measured_amount, pour_ret,
                   log, skipped, announced>>

\* what the firmware does
Step ==
    \/ TurnCmdDone
    \/ TurnStepAbort
    \/ TurnAbortReturn
    \/ TurnStepReturn
    \/ TurnStep
    \/ TurnExit
    \/ P_Base
    \/ P_BaseRet
    \/ P_WaitAbort
    \/ P_Park
    \/ P_WaitCupDone
    \/ P_WaitCupTimeout
    \/ P_Loop
    \/ P_DownRet
    \/ P_Delay
    \/ P_DelayPoll
    \/ P_RecoverRet
    \/ P_Resume
    \/ P_SettleRet
    \/ SeqSkip
    \/ SeqPour
    \/ SeqNext
    \/ SeqEnd

\* what its surroundings do
Env ==
    \/ TurnCmd
    \/ PourCmd
    \/ ScaleChange
    \/ Abort

Next == Step \/ Env

Spec == Init /\ [][Next]_vars

\* setup() and the TURN command with any table a build can be configured with
BootNext ==
    \/ BottleInit
    \/ TurnCmd
    \/ TurnCmdDone
    \/ TurnStepAbort
    \/ TurnAbortReturn
    \/ TurnStepReturn
    \/ TurnStep
    \/ TurnExit
    \/ ScaleChange
    \/ Abort

BootSpec == BootInit /\ [][BootNext]_vars

\* the TURN command alone: turn_to with any arguments from any position
TurnFirmware ==
    \/ TurnCmdDone
    \/ TurnStepAbort
    \/ TurnAbortReturn
    \/ TurnStepReturn
    \/ TurnStep
    \/ TurnExit

TurnNext ==
    \/ TurnFirmware
    \/ TurnCmd
    \/ ScaleChange
    \/ Abort

\* a running turn_to call goes on running: nothing in it waits for its
\* surroundings
TurnSpec == Init /\ [][TurnNext]_vars /\ WF_vars(TurnFirmware)

\* the firmware keeps running: loop() is called again and again
FairSpec == Spec /\ WF_vars(Step)

\* ------------------------------------------------------ properties
NPouring == Cardinality({k \in DOMAIN log : log[k][1] = "POURING"})
NTiltDown == Cardinality({k \in DOMAIN log : log[k][1] = "turn_down"})
Returned == mode = "POUR" /\ pc = "done"

\* C1: a turn_to call whose target lies outside [SERVO_MIN, SERVO_MAX]
\* returns SERVO_OUT_OF_RANGE at once, whatever its options and the abort
\* flag are, and leaves the commanded position of the servo as it was
C1_OutOfRangeNoMove ==
    (call.pos < SERVO_MIN \/ call.pos > SERVO_MAX) =>
        /\ stack = <<>>
        /\ tt_ret = SERVO_OUT_OF_RANGE
        /\ step_ops = <<>>
        /\ servo[call.b] = call.pre

C1_Witness ==
    /\ mode = "TURN" /\ call.pos > SERVO_MAX
    /\ call.check_weight /\ call.stable_weight /\ call.enable_abortcheck
    /\ abort
    /\ tt_ret = SERVO_OUT_OF_RANGE

ThreeEqual(h) == Len(h) = 3 /\ h[1] = h[2] /\ h[2] = h[3]

\* C2: a turn_to call with stabilization has declared the weight stable
\* (written *stable_weight and returned 0) exactly if the three latest valid
\* samples of the call are equal; the value written is that sample
C2_StableIffThreeEqual ==
    /\ call.stable_weight => (tt_declared <=> ThreeEqual(tt_hist))
    /\ tt_declared =>
          /\ call.stable_weight /\ stack = <<>> /\ tt_ret = OK
          /\ (pc \in {"", "base_ret"} => orig_weight = tt_hist[3])

C2_Witness ==
    /\ tt_declared /\ ThreeEqual(tt_hist) /\ tt_ret = OK
    /\ orig_weight = tt_hist[3] /\ orig_weight > 0

WaitPcs == {"base_cup", "pour_cup", "resume", "delay"}

At(k, e) == k \in DOMAIN log /\ log[k] = e

\* C4: on BOTTLE_EMPTY the pouring loop emits ERROR BOTTLE_EMPTY <number>,
\* then turns to pos_up + BOTTLE_EMPTY_POS_OFFSET and waits for RESUME there;
\* nothing but RESUME leads to the next POURING message and tilt down, which
\* then follow in that order
C4_EmptyThenResume ==
    /\ \A k \in DOMAIN log : log[k] = Ev(BOTTLE_EMPTY) =>
          /\ At(k + 1, <<"ERROR", "BOTTLE_EMPTY", cur>>)
          /\ At(k + 2, <<"turn_to", pos_up(cur) + BOTTLE_EMPTY_POS_OFFSET>>)
          /\ k + 3 \in DOMAIN log =>
                \/ log[k + 3] = <<"RESUME">>
                \/ log[k + 3][1] = "ret" /\ k + 3 = Len(log) /\ Returned
          /\ k + 4 \in DOMAIN log =>
                /\ log[k + 3] = <<"RESUME">>
                /\ log[k + 4] = POURING(cur, orig_weight)
                /\ At(k + 5, <<"turn_down">>)
    /\ (mode = "POUR" /\ pc = "resume") =>
          /\ servo[cur] = pos_up(cur) + BOTTLE_EMPTY_POS_OFFSET
          /\ log[Len(log)][1] = "turn_to"
          /\ log[Len(log) - 2] = Ev(BOTTLE_EMPTY)

C4_Witness ==
    \E k \in DOMAIN log :
        /\ log[k] = Ev(BOTTLE_EMPTY)
        /\ At(k + 3, <<"RESUME">>)
        /\ At(k + 5, <<"turn_down">>)
        /\ servo[cur] = pos_down(cur)

\* C5: on WHERE_THE_FUCK_IS_THE_CUP the pouring loop emits ERROR CUP_GONE,
\* turns to the pause position and waits for a cup there; when the cup has
\* come it goes on with POURING and the tilt down of the same bottle with the
\* same baseline, without returning and without the baseline phase
C5_CupGoneThenSameBottle ==
    /\ \A k \in DOMAIN log : log[k] = Ev(WHERE_THE_FUCK_IS_THE_CUP) =>
          /\ At(k + 1, <<"ERROR", "CUP_GONE">>)
          /\ At(k + 2, <<"turn_to", (pos_down(cur) + pos_up(cur)) \div 2>>)
          /\ k + 3 \in DOMAIN log =>
                \/ log[k + 3] = <<"CUP">>
                \/ log[k + 3][1] = "ret" /\ k + 3 = Len(log) /\ Returned
          /\ k + 4 \in DOMAIN log =>
                /\ log[k + 3] = <<"CUP">>
                /\ log[k + 4] = POURING(cur, orig_weight)
                /\ At(k + 5, <<"turn_down">>)
                /\ \E j \in 1..k : log[j] = log[k + 4]
    /\ (mode = "POUR" /\ pc = "pour_cup") =>
          /\ servo[cur] = (pos_down(cur) + pos_up(cur)) \div 2
          /\ log[Len(log) - 2] = Ev(WHERE_THE_FUCK_IS_THE_CUP)
    /\ (mode = "POUR" /\ log # <<>> /\ log[Len(log)] = <<"CUP">>) => pc = "loop"

C5_Witness ==
    \E k \in DOMAIN log :
        /\ log[k] = Ev(WHERE_THE_FUCK_IS_THE_CUP)
        /\ At(k + 3, <<"CUP">>)
        /\ At(k + 5, <<"turn_down">>)
        /\ servo[cur] = pos_down(cur)

InBaseline == mode = "POUR" /\ pc \in {"base", "base_ret", "base_cup"}

\* C6: pour waits for a cup before any POURING message, and with a cup on
\* the scale and no abort it does not stay in the baseline phase (baseline
\* retry and wait-for-cup) for ever: it gets to the POURING message or returns
C6_LeavesBaseline ==
    /\ [](InBaseline => NPouring = 0)
    /\ []<>(~InBaseline \/ scale < WEIGHT_EPSILON \/ abort)

OpsSet == {step_ops[k] : k \in DOMAIN step_ops}

\* C7: an iteration of turn_to with abort checking looks at the abort flag
\* first; when the flag is set it takes no sample and does not write the
\* servo, it calls turn_to(pos_up) without weight, stabilization and abort
\* checks, and the call returns ABORTED with the bottle at pos_up
C7_AbortFirst ==
    /\ [](/\ (call.enable_abortcheck /\ step_ops # <<>>) =>
                step_ops[1] = "check_aborted"
          /\ "turn_up" \in OpsSet =>
                /\ step_ops = <<"check_aborted", "turn_up">>
                /\ stack # <<>> => stack[1].aborting
                /\ stack = <<>> =>
                      tt_ret = ABORTED /\ servo[call.b] = pos_up(call.b)
          /\ Len(stack) = 2 =>
                /\ stack[1].aborting
                /\ stack[2].pos = pos_up(stack[1].b)
                /\ ~stack[2].check_weight /\ ~stack[2].stable_weight
                /\ ~stack[2].enable_abortcheck)
    /\ [][(Len(stack) = 1 /\ InLoop /\ Top.enable_abortcheck /\ abort) =>
              (servo' = servo /\ tt_hist' = tt_hist /\ Len(stack') >= 1)]_vars

C7_Witness ==
    /\ mode = "TURN" /\ stack = <<>> /\ tt_ret = ABORTED
    /\ call.check_weight /\ call.stable_weight /\ call.enable_abortcheck
    /\ scale < WEIGHT_EPSILON
    /\ step_ops = <<"check_aborted", "turn_up">>
    /\ call.b \in moved /\ servo[call.b] = pos_up(call.b)
    /\ call.pos = pos_down(call.b)

Recoverable == {BOTTLE_EMPTY, WHERE_THE_FUCK_IS_THE_CUP}
PourEvents == {"POURING", "turn_down", "get_grams"}
CallRetPcs == {"base_ret", "down_ret", "empty_ret", "pause_ret", "settle_ret"}

\* C8 as stated: once a step of pour has yielded ABORTED or an error other
\* than BOTTLE_EMPTY and WHERE_THE_FUCK_IS_THE_CUP, no POURING message, tilt
\* down or final measurement follows and pour returns that code
C8_AnyErrorEndsPour ==
    \A k \in DOMAIN log :
        (log[k][1] = "ret" /\ log[k][2] \notin Recoverable) =>
            /\ \A j \in DOMAIN log : j > k => log[j][1] \notin PourEvents
            /\ Returned => pour_ret = log[k][2]

\* C8 amended: the same for every code other than BOTTLE_EMPTY,
\* WHERE_THE_FUCK_IS_THE_CUP and the WEIGHT_NOT_STABLE of the baseline turn:
\* pour returns that code at once
C8_FatalEndsPour ==
    /\ [](\A k \in DOMAIN log :
            (log[k][1] = "ret"
                /\ log[k][2] \notin Recoverable \cup {WEIGHT_NOT_STABLE}) =>
                /\ k = Len(log)
                /\ Returned /\ pour_ret = log[k][2])
    /\ [][(mode = "POUR" /\ pc \in CallRetPcs /\ stack = <<>>
              /\ tt_ret \notin Recoverable \cup {OK, WEIGHT_NOT_STABLE}) =>
             \/ pc' = pc /\ log' = log
             \/ pc' = "done" /\ pour_ret' = tt_ret
                  /\ Len(log') = Len(log) + 1]_vars

C8_Witness ==
    /\ Returned /\ pour_ret = ABORTED /\ abort_at = "down_ret"
    /\ NPouring = 2
    /\ log[Len(log)] = Ev(ABORTED)

C10_CountsOnePlusRecoveries ==
    Returned => (NPouring = NTiltDown /\ NPouring = 1 + Recoveries)

\* C10 amended: every tilt down directly follows a POURING message with the
\* bottle's number and the baseline weight, so there are as many of one as
\* of the other; in a pour call that got to its pouring loop this is one
\* more than the recoveries it completed
C10_PouringBeforeTilt ==
    /\ \A k \in DOMAIN log : log[k][1] = "turn_down" =>
          k > 1 /\ log[k - 1] = <<"POURING", cur, orig_weight>>
    /\ NPouring = NTiltDown
    /\ (Returned /\ NPouring > 0) => NPouring = 1 + Recoveries

C10_Witness ==
    /\ Returned /\ pour_ret = OK
    /\ Recoveries = 2 /\ NPouring = 3 /\ NTiltDown = 3

InRange(pos) == pos >= SERVO_MIN /\ pos <= SERVO_MAX

\* C11: a turn_to call with stabilization and a target in range returns 0
\* only if it has written a stabilized weight to *stable_weight; when it
\* ends without one, the servo being at the target (also when it was there
\* from the start), it returns WEIGHT_NOT_STABLE
C11_SuccessOnlyWhenStable ==
    (call.stable_weight /\ InRange(call.pos) /\ stack = <<>>
        /\ tt_ret \in {OK, WEIGHT_NOT_STABLE}) =>
        /\ tt_ret = OK <=> tt_declared
        /\ tt_ret = WEIGHT_NOT_STABLE => servo[call.b] = call.pos

\* C12: every position the servos have been sent to, by Bottle::init and by
\* turn_to, lies within [SERVO_MIN, SERVO_MAX], whatever pos_down and pos_up
\* the bottles are configured with
C12_CommandsInRange ==
    \A b \in DOMAIN servo : InRange(servo[b])

\* C13: the servo is written by turn_to only, each time one microsecond
\* further from its last commanded position towards the target of the call,
\* never beyond it; while the call has not seen the abort flag the servo
\* stands between the start and the target, and when the call returns 0
\* without stabilization the servo stands at the target
C13_StepsTowardsTarget ==
    /\ [](/\ (Len(stack) = 1 /\ ~Top.aborting) =>
                LET d == IF call.pos > call.pre THEN 1 ELSE -1
                IN  /\ (servo[call.b] - call.pre) * d >= 0
                    /\ (call.pos - servo[call.b]) * d >= 0
          /\ (stack = <<>> /\ tt_ret = OK /\ ~call.stable_weight) =>
                servo[call.b] = call.pos)
    /\ [][servo' # servo =>
             /\ stack # <<>>
             /\ servo[Top.b] # Top.pos
             /\ LET d == IF Top.pos > servo[Top.b] THEN 1 ELSE -1
                IN  servo' = [servo EXCEPT ![Top.b] = servo[Top.b] + d]]_vars

C13_Witness ==
    /\ mode = "TURN" /\ stack = <<>> /\ tt_ret = OK
    /\ call.check_weight /\ ~call.stable_weight /\ call.enable_abortcheck
    /\ call.pre = pos_up(call.b) /\ call.pos = pos_down(call.b)
    /\ servo[call.b] = pos_down(call.b)

\* C14: an iteration of turn_to whose sample is ADS1231_WOULD_BLOCK does not
\* end the call: it leaves weight_previous1 and weight_previous2 as they
\* were and writes the next position to the servo; on any other non-zero
\* result of the scale the call returns that result and the servo is not
\* written
C14_WouldBlockSkipsWeighing ==
    [][(Len(stack) = 1 /\ InLoop /\ stack' # stack) =>
          LET f == stack[1]
              ops == {step_ops'[k] : k \in DOMAIN step_ops'}
          IN  /\ ADS1231_WOULD_BLOCK \in ops =>
                    /\ Len(stack') = 1
                    /\ stack'[1].weight_previous1 = f.weight_previous1
                    /\ stack'[1].weight_previous2 = f.weight_previous2
                    /\ tt_hist' = tt_hist
                    /\ tt_ret' = tt_ret
                    /\ servo' = [servo EXCEPT ![f.b] = f.i]
              /\ ADS1231_TIMEOUT_HIGH \in ops =>
                    /\ stack' = <<>>
                    /\ tt_ret' = ADS1231_TIMEOUT_HIGH
                    /\ servo' = servo]_vars

C14_Witness ==
    /\ Len(stack) = 1 /\ call.stable_weight
    /\ step_ops = <<"check_aborted", "get_noblock", ADS1231_WOULD_BLOCK, "write">>
    /\ Top.weight_previous1 \in Weights /\ Top.weight_previous2 \in Weights
    /\ Top.weight_previous1 # Top.weight_previous2

\* C15: an iteration of turn_to with check_weight whose sample is valid and
\* below WEIGHT_EPSILON returns WHERE_THE_FUCK_IS_THE_CUP at once: the servo
\* is not written and no stable weight is declared, also when stabilization
\* was asked for
C15_CupMissingStopsTurn ==
    /\ []((stack = <<>> /\ tt_ret = WHERE_THE_FUCK_IS_THE_CUP) =>
              /\ ~tt_declared
              /\ call.check_weight
              /\ "write" \notin OpsSet)
    /\ [][(Len(stack) = 1 /\ InLoop /\ stack' # stack
              /\ stack[1].check_weight
              /\ OK \in {step_ops'[k] : k \in DOMAIN step_ops'}
              /\ scale < WEIGHT_EPSILON) =>
             /\ stack' = <<>>
             /\ tt_ret' = WHERE_THE_FUCK_IS_THE_CUP
             /\ servo' = servo
             /\ ~tt_declared' /\ orig_weight' = orig_weight]_vars

C15_Witness ==
    /\ mode = "TURN" /\ stack = <<>> /\ tt_ret = WHERE_THE_FUCK_IS_THE_CUP
    /\ call.check_weight /\ call.stable_weight
    /\ Len(tt_hist) = 3 /\ tt_hist[1] = tt_hist[2] /\ tt_hist[3] < WEIGHT_EPSILON
    /\ call.b \in moved /\ servo[call.b] # call.pos

\* C16: when pour returns 0 the last turn it made was the one to the pause
\* position (pos_down + pos_up) / 2, the bottle stands there and not at
\* pos_up, and measured_amount is the weight read after that turn minus the
\* weight of the POURING message
C16_SuccessAtPausePos ==
    (Returned /\ pour_ret = OK) =>
        /\ servo[cur] = (pos_down(cur) + pos_up(cur)) \div 2
        /\ servo[cur] # pos_up(cur)
        /\ Len(log) >= 4
        /\ log[Len(log)][1] = "get_grams"
        /\ log[Len(log) - 1] = <<"turn_to", (pos_down(cur) + pos_up(cur)) \div 2>>
        /\ NPouring >= 1
        /\ \A k \in DOMAIN log : log[k][1] = "POURING" =>
              measured_amount = log[Len(log)][2] - log[k][3]

C16_Witness ==
    /\ Returned /\ pour_ret = OK /\ Recoveries > 0
    /\ measured_amount = 1 /\ log[Len(log)][2] = MaxWeight
    /\ servo[cur] = get_pause_pos(cur)

\* C17: the wait for the requested weight does not go on once more than
\* POURING_TIMEOUT has passed since the tilt down of the iteration began,
\* the time spent stepping the bottle down included
C17_TimeoutFromTiltStart ==
    (mode = "POUR" /\ pc = "delay") => since_tilt <= POURING_TIMEOUT

Abs(x) == IF x < 0 THEN -x ELSE x

\* iterations the outermost turn_to call has completed
Iterations == (stack[1].i - call.pre) * (IF call.pos > call.pre THEN 1 ELSE -1) - 1

\* C18: every turn_to call returns; a call from s to t makes at most |t - s|
\* loop iterations, and the abort path nests at most one turn_up, which runs
\* without abort checks
C18_TurnTerminates ==
    /\ [](Len(stack) <= 2)
    /\ [](Len(stack) = 2 =>
            /\ stack[1].aborting /\ stack[1].enable_abortcheck
            /\ ~stack[2].enable_abortcheck /\ ~stack[2].aborting
            /\ stack[2].pos = pos_up(stack[1].b))
    /\ []((stack # <<>> /\ ~stack[1].aborting) =>
            /\ Iterations >= 0
            /\ Iterations <= Abs(call.pos - call.pre)
            /\ Iterations = Abs(call.pos - call.pre) => ~InLoop)
    /\ (stack # <<>>) ~> (stack = <<>>)

C18_Witness ==
    /\ Len(stack) = 2 /\ mode = "TURN"
    /\ call.pos = pos_down(call.b) /\ call.pre = pos_up(call.b)
    /\ servo[call.b] = pos_up(call.b) - 1
    /\ stack[1].i = pos_down(call.b) + 1

PouringPcs == {"loop", "down_ret", "delay", "empty_ret", "pause_ret",
               "resume", "pour_cup", "settle_ret"}

\* C19: pour gets to its pouring loop only with a baseline weight of at
\* least WEIGHT_EPSILON: every POURING message carries such a weight and no
\* tilt down is made on a smaller one
C19_PouringWithCup ==
    /\ \A k \in DOMAIN log :
          log[k][1] \in {"POURING", "turn_down"} =>
              orig_weight >= WEIGHT_EPSILON
    /\ \A k \in DOMAIN log :
          log[k][1] = "POURING" => log[k][3] >= WEIGHT_EPSILON
    /\ (mode = "POUR" /\ pc \in PouringPcs) => orig_weight >= WEIGHT_EPSILON

C19_Witness ==
    /\ mode = "POUR" /\ pc = "down_ret"
    /\ log = <<Ev(WEIGHT_NOT_STABLE), POURING(cur, WEIGHT_EPSILON),
               <<"turn_down">>>>
    /\ servo[cur] = pos_down(cur)
    /\ scale < WEIGHT_EPSILON

\* C20: the pouring loop does not measure the baseline again: all POURING
\* messages of a pour call carry the same weight, every wait for the weight
\* has baseline + requested_amount - UPGRIGHT_OFFSET as its target, and
\* measured_amount is the final weight minus that baseline, also after the
\* cup was taken away and put back
C20_SameBaseline ==
    /\ [](/\ \A j \in DOMAIN log, k \in DOMAIN log :
                (log[j][1] = "POURING" /\ log[k][1] = "POURING") =>
                    log[j] = log[k]
          /\ \A k \in DOMAIN log : log[k][1] = "delay_until" =>
                \E j \in DOMAIN log :
                    /\ log[j][1] = "POURING"
                    /\ log[k][2] = log[j][3] + requested_amount - UPGRIGHT_OFFSET
          /\ (Returned /\ pour_ret = OK) =>
                \E j \in DOMAIN log :
                    /\ log[j][1] = "POURING"
                    /\ measured_amount = log[Len(log)][2] - log[j][3])
    /\ [][(mode = "POUR" /\ pc \in PouringPcs) =>
              orig_weight' = orig_weight]_vars

C20_Witness ==
    /\ Returned /\ pour_ret = OK
    /\ \E k \in DOMAIN log : log[k] = <<"CUP">>
    /\ NPouring = 2
    /\ log[1] = POURING(cur, WEIGHT_EPSILON)
    /\ measured_amount = MaxWeight - WEIGHT_EPSILON
====
